---- MODULE Spec2Model ----
(***************************************************************************)
(* Model of the Domoticz plugin helper (src/DomoticzPluginHelper.py) and   *)
(* of the wrapper classes of src/DomoticzWrapper.py. The helper imports    *)
(* its wrapper from the module DomoticzWrapperClass, which is not among    *)
(* the sources: what the helper calls on it is modelled from the           *)
(* specification, as a pass-through to the host.                           *)
(*                                                                         *)
(* Python strings that the helper parses (configuration values, CSV text,  *)
(* version strings, credentials) are sequences of one-character strings.   *)
(* The text of the persisted user variable is a sequence of lexical tokens *)
(* of the Python expression that str(dict) prints and eval() reads back.   *)
(***************************************************************************)
EXTENDS Integers, Sequences, FiniteSets, TLC

VARIABLES
    Internals,              \* self.Internals: key -> value
    InternalsDefaults,      \* self.InternalsDefaults
    InitializedDeviceUnits, \* self.InitializedDeviceUnits
    Username,               \* Parameters.Username
    Password,               \* Parameters.Password
    hostVar,                \* the host's user variable "<Name>-InternalVariables"
    Devices,                \* units of the host's Devices dictionary
    debugLevel,             \* last value given to the host's Debugging
    lastOp,                 \* the helper operation that ran last
    requests,               \* GET requests the last operation sent, in order
    replies,                \* what DomoticzAPI returned for each call of the last operation
    errors,                 \* number of Domoticz.Error lines the last operation logged
    ret,                    \* value the last operation returned
    raised,                 \* exception the last operation raised to its caller
    saved,                  \* the mapping SaveUserVar stored last, while nothing else changed it
    apiResp,                \* the HTTP response the last direct DomoticzAPI call received
    paramValue,             \* CheckParam: value
    paramDefault,           \* CheckParam: default
    strCSV,                 \* ParseCSV: strCSV
    pending,                \* ParseCSV: tokens of strCSV.split(",") not yet visited
    listValues,             \* ParseCSV: listValues
    csvpc,                  \* ParseCSV: position ("idle", "loop", "done")
    hostCalls,              \* calls the last operation made on the host's Debugging, Device and Image objects
    devValue,               \* nValue of the host's device of each unit
    initCalls,              \* the Unit of every InitDevice call made on this helper object
    debugValues,            \* Debugging: values
    image,                  \* the host image record a DomoticzImage holds (_image)
    unitArg,                \* InitDevice: Unit
    uvpc,                   \* GetUserVar: position ("idle", "version", "create"); "waiting": urlopen does not return
    uvParameter             \* GetUserVar: parameter

vars == <<Internals, InternalsDefaults, InitializedDeviceUnits, Username, Password,
          hostVar, Devices, debugLevel, lastOp, requests, replies, errors, ret,
          raised, saved, apiResp, paramValue, paramDefault, strCSV, pending,
          listValues, csvpc, hostCalls, devValue, initCalls, debugValues, image,
          unitArg, uvpc, uvParameter>>

(***************************************************************************)
(* Bounds of the model.                                                    *)
(***************************************************************************)
MaxInt == 1       \* integers stored in Internals range over 0..MaxInt
MaxLen == 3       \* longest string given to CheckParam
MaxCSVLen == 5    \* longest string given to ParseCSV
MaxUnit == 2      \* device units range over 1..MaxUnit
MaxFlags == 3     \* longest list of debug levels given to Debugging, the example apart
MaxImageID == 3   \* image IDs range over 1..MaxImageID

(***************************************************************************)
(* Python values and characters.                                           *)
(***************************************************************************)
\* A Python scalar that an operation returns: t is its type, n its number,
\* s its text.
PyVal(t, n, s) == [t |-> t, n |-> n, s |-> s]
PyNone == PyVal("NoneType", 0, "")
PyIntVal(n) == PyVal("int", n, "")
PyStrVal(s) == PyVal("str", 0, s)

\* Exceptions are named by their class; NoExc: nothing was raised.
NoExc == "none"

Digits == {"0", "1", "2", "3", "4", "5", "6", "7", "8", "9"}

DigitVal(c) ==
    CASE c = "0" -> 0 [] c = "1" -> 1 [] c = "2" -> 2 [] c = "3" -> 3
      [] c = "4" -> 4 [] c = "5" -> 5 [] c = "6" -> 6 [] c = "7" -> 7
      [] c = "8" -> 8 [] c = "9" -> 9

\* str.strip(): the characters Python treats as whitespace (here: the blank).
RECURSIVE LStrip(_)
LStrip(s) == IF s # <<>> /\ Head(s) = " " THEN LStrip(Tail(s)) ELSE s

RECURSIVE RStrip(_)
RStrip(s) ==
    IF s # <<>> /\ s[Len(s)] = " " THEN RStrip(SubSeq(s, 1, Len(s) - 1)) ELSE s

Strip(s) == RStrip(LStrip(s))

\* The digits of an integer literal, scanned left to right as int() does:
\* digits, with single underscores allowed between digits. The result is
\* the value, or -1 when the text is no such literal.
RECURSIVE ScanDigits(_, _, _)
ScanDigits(s, acc, prevDigit) ==
    IF s = <<>> THEN (IF prevDigit THEN acc ELSE -1)
    ELSE IF Head(s) \in Digits
         THEN ScanDigits(Tail(s), acc * 10 + DigitVal(Head(s)), TRUE)
    ELSE IF Head(s) = "_" /\ prevDigit
         THEN ScanDigits(Tail(s), acc, FALSE)
    ELSE -1

\* int() that does not skip the blanks around the literal.
PyIntOfStrNoStrip(s) ==
    LET neg == s # <<>> /\ Head(s) = "-"
        signed == s # <<>> /\ Head(s) \in {"+", "-"}
        body == IF signed THEN Tail(s) ELSE s
        mag == ScanDigits(body, 0, FALSE)
    IN  IF mag < 0 THEN [ok |-> FALSE, n |-> 0]
        ELSE [ok |-> TRUE, n |-> IF neg THEN 0 - mag ELSE mag]

\* int(s) for a str s: [ok |-> FALSE] stands for ValueError.
PyIntOfStr(s) ==
    LET t == Strip(s)
        neg == t # <<>> /\ Head(t) = "-"
        signed == t # <<>> /\ Head(t) \in {"+", "-"}
        body == IF signed THEN Tail(t) ELSE t
        mag == ScanDigits(body, 0, FALSE)
    IN  IF mag < 0 THEN [ok |-> FALSE, n |-> 0]
        ELSE [ok |-> TRUE, n |-> IF neg THEN 0 - mag ELSE mag]

\* str.split(sep) of a non-empty separator: always at least one token.
RECURSIVE SplitAcc(_, _, _)
SplitAcc(s, sep, cur) ==
    IF s = <<>> THEN <<cur>>
    ELSE IF Head(s) = sep THEN <<cur>> \o SplitAcc(Tail(s), sep, <<>>)
    ELSE SplitAcc(Tail(s), sep, Append(cur, Head(s)))

Split(s, sep) == SplitAcc(s, sep, <<>>)

(***************************************************************************)
(* The text of the persisted variable: str(dict) and eval().               *)
(***************************************************************************)
\* A Python object that eval() can build from the text of the variable: t is
\* its type, n the number of an int, s the characters of a str, items the
\* elements of a list or tuple, the key-value items of a dict in insertion
\* order, the two parts of an item or the three of a slice, elems the
\* elements of a set.
Obj(t, n, s, items, elems) ==
    [t |-> t, n |-> n, s |-> s, items |-> items, elems |-> elems]
NoneObj == Obj("NoneType", 0, <<>>, <<>>, {})
IntObj(n) == Obj("int", n, <<>>, <<>>, {})
StrObj(chars) == Obj("str", 0, chars, <<>>, {})
TupleObj(items) == Obj("tuple", 0, <<>>, items, {})
Item(key, value) == Obj("item", 0, <<>>, <<key, value>>, {})
DictObj(items) == Obj("dict", 0, <<>>, items, {})
SliceObj(lo, hi, step) == Obj("slice", 0, <<>>, <<lo, hi, step>>, {})
EmptyDict == DictObj(<<>>)

\* hash(v) is defined: scalars, and tuples of hashable objects.
RECURSIVE Hashable(_)
Hashable(v) ==
    \/ v.t \in {"int", "str", "NoneType", "float"}
    \/ v.t = "tuple" /\ \A i \in 1..Len(v.items) : Hashable(v.items[i])

\* The keys of a dict.
DictKeys(d) == {d.items[i].items[1] : i \in 1..Len(d.items)}

\* d[key], for a key of d.
DictGet(d, key) ==
    d.items[CHOOSE i \in 1..Len(d.items) : d.items[i].items[1] = key].items[2]

\* d[key] = value: a key of d keeps its place, a new key is added last.
DictSet(d, key, value) ==
    IF key \in DictKeys(d)
    THEN DictObj([i \in 1..Len(d.items) |->
                     IF d.items[i].items[1] = key
                     THEN Item(d.items[i].items[1], value) ELSE d.items[i]])
    ELSE DictObj(Append(d.items, Item(key, value)))

\* The dict holding the items, set one after the other.
RECURSIVE DictOf(_, _)
DictOf(items, acc) ==
    IF items = <<>> THEN acc
    ELSE DictOf(Tail(items), DictSet(acc, Head(items).items[1], Head(items).items[2]))

\* dict.update(S) with a dict S
\* An update that replaces the mapping by the one read.
DictReplace(I, S) == S

DictUpdate(I, S) == DictOf(S.items, I)

\* A lexical token of a Python expression: k is its kind, n the number of a
\* "num", s the characters of a "strlit" or "punct". The other kinds are
\* "None" (the keyword), "nan" (the name nan, which repr() writes for a float
\* and which nothing defines in the helper module), "set()" (the call that
\* repr() writes for an empty set) and "end" after the last token. The texts
\* of the model are the sequences of these tokens: they hold no other name.
Tok(k, n, s) == [k |-> k, n |-> n, s |-> s]
LBrace == Tok("punct", 0, <<"{">>)
RBrace == Tok("punct", 0, <<"}">>)
Colon == Tok("punct", 0, <<":">>)
Comma == Tok("punct", 0, <<",">>)
LBracket == Tok("punct", 0, <<"[">>)
RBracket == Tok("punct", 0, <<"]">>)
LParen == Tok("punct", 0, <<"(">>)
RParen == Tok("punct", 0, <<")">>)
EndTok == Tok("end", 0, <<>>)
NumTok(n) == Tok("num", n, <<>>)
StrTok(chars) == Tok("strlit", 0, chars)

\* The orders in which the elements of a set can be iterated. The order
\* follows the hashes: an int below 8 is its own hash and takes the slot of
\* that number, so that such ints come in ascending order; the hash of a str
\* differs from one process to the next, and any order can come out.
Orders(S) ==
    LET all == {f \in [1..Cardinality(S) -> S] :
                   \A x \in S : \E i \in 1..Cardinality(S) : f[i] = x}
    IN  IF \A x \in S : x.t = "int" /\ x.n < 8
        THEN {f \in all : \A i, j \in 1..Cardinality(S) : i < j => f[i].n < f[j].n}
        ELSE all

\* repr(v): the texts it can give (one, unless v holds a set of several
\* elements). A tuple of one element prints a comma after it, an empty set
\* prints as the call set().
RECURSIVE PyRepr(_), JoinRepr(_)
PyRepr(v) ==
    CASE v.t = "int" -> {<<NumTok(v.n)>>}
      [] v.t = "str" -> {<<StrTok(v.s)>>}
      [] v.t = "float" -> {<<Tok("nan", 0, <<>>)>>}
      [] v.t = "NoneType" -> {<<Tok("None", 0, <<>>)>>}
      [] v.t = "item" ->
           {k \o <<Colon>> \o x : k \in PyRepr(v.items[1]), x \in PyRepr(v.items[2])}
      [] v.t = "dict" -> {<<LBrace>> \o body \o <<RBrace>> : body \in JoinRepr(v.items)}
      [] v.t = "list" -> {<<LBracket>> \o body \o <<RBracket>> : body \in JoinRepr(v.items)}
      [] v.t = "tuple" ->
           {<<LParen>> \o body \o (IF Len(v.items) = 1 THEN <<Comma>> ELSE <<>>)
              \o <<RParen>> : body \in JoinRepr(v.items)}
      [] v.t = "set" ->
           IF v.elems = {} THEN {<<Tok("set()", 0, <<>>)>>}
           ELSE UNION {{<<LBrace>> \o body \o <<RBrace>> : body \in JoinRepr(order)} :
                          order \in Orders(v.elems)}
      [] OTHER -> {<<>>}

JoinRepr(items) ==
    IF items = <<>> THEN {<<>>}
    ELSE {h \o (IF Len(items) = 1 THEN <<>> ELSE <<Comma>>) \o rest :
             h \in PyRepr(Head(items)), rest \in JoinRepr(Tail(items))}

\* str(M) of a dict M: the texts it can give.
PyStr(M) == PyRepr(M)

\* The token at position i, EndTok after the last one.
At(toks, i) == IF i \in 1..Len(toks) THEN toks[i] ELSE EndTok

\* The first exception raised.
FirstErr(e1, e2) == IF e1 # NoExc THEN e1 ELSE e2

\* What the objects x and idx give as x[idx]. A str, list or tuple takes an
\* int below its length or a slice of ints; a dict takes a hashable key it
\* holds; nothing else can be subscripted.
Elements(x) == IF x.t = "str" THEN x.s ELSE x.items

SliceOf(x, sl) ==
    LET lo == sl.items[1]
        hi == sl.items[2]
        st == sl.items[3]
        seq == Elements(x)
        step == IF st.t = "int" THEN st.n ELSE 1
        start == IF lo.t = "int" /\ lo.n < Len(seq) THEN lo.n
                 ELSE IF lo.t = "int" THEN Len(seq) ELSE 0
        stop == IF hi.t = "int" /\ hi.n < Len(seq) THEN hi.n ELSE Len(seq)
        IsIndex(v) == v.t \in {"int", "NoneType"}
    IN  IF ~IsIndex(st) THEN [err |-> "TypeError", val |-> NoneObj]
        ELSE IF st.t = "int" /\ st.n = 0 THEN [err |-> "ValueError", val |-> NoneObj]
        ELSE IF ~IsIndex(lo) \/ ~IsIndex(hi) THEN [err |-> "TypeError", val |-> NoneObj]
        ELSE LET count == IF stop > start THEN (stop - start + step - 1) \div step ELSE 0
                 cut == [j \in 1..count |-> seq[start + (j - 1) * step + 1]]
             IN  [err |-> NoExc,
                  val |-> IF x.t = "str" THEN StrObj(cut) ELSE Obj(x.t, 0, <<>>, cut, {})]

Subscript(x, idx) ==
    IF x.t \in {"str", "list", "tuple"}
    THEN IF idx.t = "int"
         THEN IF idx.n < Len(Elements(x))
              THEN [err |-> NoExc,
                    val |-> IF x.t = "str" THEN StrObj(<<x.s[idx.n + 1]>>)
                            ELSE x.items[idx.n + 1]]
              ELSE [err |-> "IndexError", val |-> NoneObj]
         ELSE IF idx.t = "slice" THEN SliceOf(x, idx)
         ELSE [err |-> "TypeError", val |-> NoneObj]
    ELSE IF x.t = "dict"
    THEN IF ~Hashable(idx) THEN [err |-> "TypeError", val |-> NoneObj]
         ELSE IF idx \in DictKeys(x) THEN [err |-> NoExc, val |-> DictGet(x, idx)]
         ELSE [err |-> "KeyError", val |-> NoneObj]
    ELSE [err |-> "TypeError", val |-> NoneObj]

\* The result of reading one expression: ok tells whether the tokens up to
\* pos (the next one) are well formed, err names the first exception that
\* evaluating them raises, val is the object they give.
Read(ok, pos, err, val) == [ok |-> ok, pos |-> pos, err |-> err, val |-> val]
NotRead == Read(FALSE, 0, NoExc, NoneObj)

\* The same for a list of expressions: vals are their objects, comma tells
\* whether a comma was read.
ReadList(ok, pos, err, vals, comma) ==
    [ok |-> ok, pos |-> pos, err |-> err, vals |-> vals, comma |-> comma]
NotReadList == ReadList(FALSE, 0, NoExc, <<>>, FALSE)

\* The characters of the adjacent string literals from position i on, which
\* make one str, and the position after them.
RECURSIVE Strings(_, _)
Strings(toks, i) ==
    IF At(toks, i).k = "strlit"
    THEN LET rest == Strings(toks, i + 1)
         IN  [chars |-> At(toks, i).s \o rest.chars, pos |-> rest.pos]
    ELSE [chars |-> <<>>, pos |-> i]

\* The expressions that the tokens of the model can form:
\*   expression: atom trailer*
\*   atom:       number | string+ | name | '(' [list] ')' | '[' [list] ']'
\*               | '{' [items | list] '}'
\*   list:       expression (',' expression)* [',']
\*   items:      expression ':' expression (',' expression ':' expression)* [',']
\*   trailer:    '(' [list] ')' | '[' slices ']'
\*   slices:     slice (',' slice)* [',']
\*   slice:      expression | [expression] ':' [expression] [':' [expression]]
\* Expressions are evaluated from left to right as they are read; a display
\* is built, and its keys or elements hashed, when all its parts are
\* evaluated; a call fails, since no object of the model can be called. Of
\* the names, None is defined; set is read in the call set(), which str()
\* prints for an empty set.

\* The display that the parts read make, hashing the keys of a dict and the
\* elements of a set.
Display(kind, parts) ==
    IF ~parts.ok THEN NotRead
    ELSE IF parts.err # NoExc THEN Read(TRUE, parts.pos, parts.err, NoneObj)
    ELSE CASE kind = "group" ->
                Read(TRUE, parts.pos, NoExc,
                     IF parts.comma THEN TupleObj(parts.vals) ELSE parts.vals[1])
           [] kind = "list" ->
                Read(TRUE, parts.pos, NoExc, Obj("list", 0, <<>>, parts.vals, {}))
           [] kind = "set" ->
                IF \A i \in 1..Len(parts.vals) : Hashable(parts.vals[i])
                THEN Read(TRUE, parts.pos, NoExc,
                          Obj("set", 0, <<>>, <<>>,
                              {parts.vals[i] : i \in 1..Len(parts.vals)}))
                ELSE Read(TRUE, parts.pos, "TypeError", NoneObj)
           [] OTHER ->
                IF \A i \in 1..Len(parts.vals) : Hashable(parts.vals[i].items[1])
                THEN Read(TRUE, parts.pos, NoExc, DictOf(parts.vals, EmptyDict))
                ELSE Read(TRUE, parts.pos, "TypeError", NoneObj)

\* Reading the tokens from position i on by one rule of the grammar. The
\* rules "expression", "atom", "bound" (a part of a slice, or none before
\* ':' ',' ']') and "slice" give a Read(); "trailers" gives the Read() of the
\* expression a.r followed by its calls and subscriptions; "list" reads
\* expressions (slices when a.slices) up to the token a.close, "listtail"
\* what follows the expressions a.vals of a list and "dicttail" what follows
\* the items a.vals of a dict display, and these give a ReadList(); a.err is
\* the first exception raised so far.
RECURSIVE Parse(_, _, _, _)
Parse(rule, toks, i, a) ==
    LET tok == At(toks, i)
        Expression(j) == Parse("expression", toks, j, a)
        Bound(j) == Parse("bound", toks, j, a)
        Element(j, slices) == Parse(IF slices THEN "slice" ELSE "expression", toks, j, a)
        List(j, close, slices) ==
            Parse("list", toks, j, [close |-> close, slices |-> slices])
        ListTail(j, close, slices, vals, err) ==
            Parse("listtail", toks, j,
                  [close |-> close, slices |-> slices, vals |-> vals, err |-> err])
        DictTail(j, items, err) == Parse("dicttail", toks, j, [vals |-> items, err |-> err])
        Trailers(r) == Parse("trailers", toks, r.pos, [r |-> r])
    IN  CASE rule = "expression" ->
               Parse("trailers", toks, i, [r |-> Parse("atom", toks, i, a)])
          [] rule = "atom" ->
               CASE tok.k = "num" -> Read(TRUE, i + 1, NoExc, IntObj(tok.n))
                 [] tok.k = "strlit" ->
                      Read(TRUE, Strings(toks, i).pos, NoExc,
                           StrObj(Strings(toks, i).chars))
                 [] tok.k = "None" -> Read(TRUE, i + 1, NoExc, NoneObj)
                 [] tok.k = "nan" -> Read(TRUE, i + 1, "NameError", NoneObj)
                 [] tok.k = "set()" ->
                      Read(TRUE, i + 1, NoExc, Obj("set", 0, <<>>, <<>>, {}))
                 [] tok = LParen ->
                      IF At(toks, i + 1) = RParen
                      THEN Read(TRUE, i + 2, NoExc, TupleObj(<<>>))
                      ELSE Display("group", List(i + 1, RParen, FALSE))
                 [] tok = LBracket ->
                      IF At(toks, i + 1) = RBracket
                      THEN Read(TRUE, i + 2, NoExc, Obj("list", 0, <<>>, <<>>, {}))
                      ELSE Display("list", List(i + 1, RBracket, FALSE))
                 [] tok = LBrace ->
                      IF At(toks, i + 1) = RBrace THEN Read(TRUE, i + 2, NoExc, EmptyDict)
                      ELSE LET e == Expression(i + 1)
                           IN  IF ~e.ok THEN NotRead
                               ELSE IF At(toks, e.pos) # Colon
                               THEN Display("set", ListTail(e.pos, RBrace, FALSE,
                                                            <<e.val>>, e.err))
                               ELSE LET value == Expression(e.pos + 1)
                                    IN  IF ~value.ok THEN NotRead
                                        ELSE Display("dict",
                                               DictTail(value.pos,
                                                        <<Item(e.val, value.val)>>,
                                                        FirstErr(e.err, value.err)))
                 [] OTHER -> NotRead
          [] rule = "trailers" ->
               IF ~a.r.ok THEN NotRead
               ELSE IF At(toks, a.r.pos) = LParen
               THEN LET args == IF At(toks, a.r.pos + 1) = RParen
                                THEN ReadList(TRUE, a.r.pos + 2, NoExc, <<>>, FALSE)
                                ELSE List(a.r.pos + 1, RParen, FALSE)
                    IN  IF ~args.ok THEN NotRead
                        ELSE Trailers(Read(TRUE, args.pos,
                                           FirstErr(a.r.err,
                                                    FirstErr(args.err, "TypeError")),
                                           NoneObj))
               ELSE IF At(toks, a.r.pos) = LBracket
               THEN LET idx == List(a.r.pos + 1, RBracket, TRUE)
                    IN  IF ~idx.ok THEN NotRead
                        ELSE IF FirstErr(a.r.err, idx.err) # NoExc
                        THEN Trailers(Read(TRUE, idx.pos, FirstErr(a.r.err, idx.err),
                                           NoneObj))
                        ELSE LET got == Subscript(a.r.val,
                                                  IF idx.comma THEN TupleObj(idx.vals)
                                                  ELSE idx.vals[1])
                             IN  Trailers(Read(TRUE, idx.pos, got.err, got.val))
               ELSE a.r
          [] rule = "bound" ->
               IF tok \in {Colon, Comma, RBracket} THEN Read(TRUE, i, NoExc, NoneObj)
               ELSE Expression(i)
          [] rule = "slice" ->
               LET lo == IF tok = Colon THEN Read(TRUE, i, NoExc, NoneObj)
                         ELSE Expression(i)
               IN  IF ~lo.ok \/ At(toks, lo.pos) # Colon THEN lo
                   ELSE
                   LET hi == Bound(lo.pos + 1)
                   IN  IF ~hi.ok THEN NotRead
                       ELSE IF At(toks, hi.pos) # Colon
                       THEN Read(TRUE, hi.pos, FirstErr(lo.err, hi.err),
                                 SliceObj(lo.val, hi.val, NoneObj))
                       ELSE
                       LET st == Bound(hi.pos + 1)
                       IN  IF ~st.ok THEN NotRead
                           ELSE Read(TRUE, st.pos,
                                     FirstErr(lo.err, FirstErr(hi.err, st.err)),
                                     SliceObj(lo.val, hi.val, st.val))
          [] rule = "list" ->
               LET e == Element(i, a.slices)
               IN  IF ~e.ok THEN NotReadList
                   ELSE ListTail(e.pos, a.close, a.slices, <<e.val>>, e.err)
          [] rule = "listtail" ->
               IF tok = a.close THEN ReadList(TRUE, i + 1, a.err, a.vals, Len(a.vals) > 1)
               ELSE IF tok # Comma THEN NotReadList
               ELSE IF At(toks, i + 1) = a.close
               THEN ReadList(TRUE, i + 2, a.err, a.vals, TRUE)
               ELSE LET e == Element(i + 1, a.slices)
                    IN  IF ~e.ok THEN NotReadList
                        ELSE ListTail(e.pos, a.close, a.slices, Append(a.vals, e.val),
                                      FirstErr(a.err, e.err))
          [] OTHER ->
               IF tok = RBrace THEN ReadList(TRUE, i + 1, a.err, a.vals, FALSE)
               ELSE IF tok # Comma THEN NotReadList
               ELSE IF At(toks, i + 1) = RBrace
               THEN ReadList(TRUE, i + 2, a.err, a.vals, TRUE)
               ELSE LET key == Expression(i + 1)
                    IN  IF ~key.ok \/ At(toks, key.pos) # Colon THEN NotReadList
                        ELSE LET value == Expression(key.pos + 1)
                             IN  IF ~value.ok THEN NotReadList
                                 ELSE DictTail(value.pos,
                                               Append(a.vals, Item(key.val, value.val)),
                                               FirstErr(a.err,
                                                        FirstErr(key.err, value.err)))

\* The expressions of a whole text, up to its end.
ParseText(text) == Parse("list", text, 1, [close |-> EndTok, slices |-> FALSE])

\* Whether the text compiles: a list of expressions and nothing after it.
SyntaxOK(text) == ParseText(text).ok

\* eval(text): err names the exception raised, val is the object given.
PyEval(text) ==
    LET r == ParseText(text)
    IN  IF ~r.ok THEN [err |-> "SyntaxError", val |-> NoneObj]
        ELSE IF r.err # NoExc THEN [err |-> r.err, val |-> NoneObj]
        ELSE [err |-> NoExc, val |-> IF r.comma THEN TupleObj(r.vals) ELSE r.vals[1]]

\* The sequences that iterating v can give: the characters of a str, the
\* elements of a list or tuple, the keys of a dict, the elements of a set in
\* any order; none for an object that is not iterable.
Iterations(v) ==
    CASE v.t = "str" -> {[i \in 1..Len(v.s) |-> StrObj(<<v.s[i]>>)]}
      [] v.t \in {"list", "tuple"} -> {v.items}
      [] v.t = "dict" -> {[i \in 1..Len(v.items) |-> v.items[i].items[1]]}
      [] v.t = "set" -> Orders(v.elems)
      [] OTHER -> {}

\* dict.update(iterable): every element has to be an iterable (else
\* TypeError) of two objects (else ValueError), a hashable key (else
\* TypeError) and a value; the elements before the one that fails are set.
\* The outcomes, one for each order in which the sets are iterated.
RECURSIVE UpdateFromElements(_, _)
UpdateFromElements(I, elems) ==
    IF elems = <<>> THEN {[err |-> NoExc, val |-> I]}
    ELSE IF Iterations(Head(elems)) = {} THEN {[err |-> "TypeError", val |-> I]}
    ELSE UNION {IF Len(pair) # 2 THEN {[err |-> "ValueError", val |-> I]}
                ELSE IF ~Hashable(pair[1]) THEN {[err |-> "TypeError", val |-> I]}
                ELSE UpdateFromElements(DictSet(I, pair[1], pair[2]), Tail(elems)) :
                   pair \in Iterations(Head(elems))}

\* I.update(v) for the object v that eval() gave: the outcomes. A dict is
\* merged; any other iterable is taken as key-value pairs; an object that is
\* not iterable raises TypeError.
PyUpdate(I, v) ==
    IF v.t = "dict" THEN {[err |-> NoExc, val |-> DictUpdate(I, v)]}
    ELSE IF Iterations(v) = {} THEN {[err |-> "TypeError", val |-> I]}
    ELSE UNION {UpdateFromElements(I, elems) : elems \in Iterations(v)}

(***************************************************************************)
(* distutils.version.LooseVersion of a dotted numeric version string.      *)
(***************************************************************************)
RECURSIVE ComponentValues(_)
ComponentValues(parts) ==
    IF parts = <<>> THEN <<>>
    ELSE <<ScanDigits(Head(parts), 0, FALSE)>> \o ComponentValues(Tail(parts))

LooseVersion(s) == ComponentValues(Split(s, "."))

\* Python's list comparison a >= b: the first differing component decides,
\* and a list is greater than each of its proper prefixes.
RECURSIVE VersionGE(_, _)
VersionGE(a, b) ==
    IF b = <<>> THEN TRUE
    ELSE IF a = <<>> THEN FALSE
    ELSE IF Head(a) # Head(b) THEN Head(a) > Head(b)
    ELSE VersionGE(Tail(a), Tail(b))

(***************************************************************************)
(* base64.b64encode of the credentials.                                    *)
(***************************************************************************)
\* ord() of the characters credentials are made of.
Ord(c) ==
    CASE c = ":" -> 58 [] c = "a" -> 97 [] c = "b" -> 98 [] c = "p" -> 112
      [] c = "u" -> 117 [] c = "w" -> 119 [] c = "é" -> 233

Bytes(s) == [i \in 1..Len(s) |-> Ord(s[i])]

B64Alphabet ==
    <<"A","B","C","D","E","F","G","H","I","J","K","L","M","N","O","P",
      "Q","R","S","T","U","V","W","X","Y","Z","a","b","c","d","e","f",
      "g","h","i","j","k","l","m","n","o","p","q","r","s","t","u","v",
      "w","x","y","z","0","1","2","3","4","5","6","7","8","9","+","/">>

B64Char(sextet) == B64Alphabet[sextet + 1]

RECURSIVE B64Encode(_)
B64Encode(bs) ==
    IF bs = <<>> THEN <<>>
    ELSE IF Len(bs) = 1
         THEN LET n == bs[1] * 65536
              IN  <<B64Char(n \div 262144), B64Char((n \div 4096) % 64), "=", "=">>
    ELSE IF Len(bs) = 2
         THEN LET n == bs[1] * 65536 + bs[2] * 256
              IN  <<B64Char(n \div 262144), B64Char((n \div 4096) % 64),
                    B64Char((n \div 64) % 64), "=">>
    ELSE LET n == bs[1] * 65536 + bs[2] * 256 + bs[3]
         IN  <<B64Char(n \div 262144), B64Char((n \div 4096) % 64),
               B64Char((n \div 64) % 64), B64Char(n % 64)>>
             \o B64Encode(SubSeq(bs, 4, Len(bs)))

(***************************************************************************)
(* The host's JSON API, as the helper sees it.                             *)
(***************************************************************************)
\* Parameters.Name + "-InternalVariables"
VarName == "P-InternalVariables"

\* The query string "type=command&param=..&vname=..&vtype=2&vvalue=..".
ApiCall(param, vname, vvalue) == [param |-> param, vname |-> vname, vvalue |-> vvalue]
ListCall == ApiCall("getuservariables", "", <<>>)

\* A JSON object: its members status, result, dzvents_version when present;
\* extra: it has other members (such as title).
Body(hasStatus, status, extra, hasResult, result, hasDz, dz) ==
    [hasStatus |-> hasStatus, status |-> status, extra |-> extra,
     hasResult |-> hasResult, result |-> result, hasDz |-> hasDz, dz |-> dz]
EmptyBody == Body(FALSE, "", FALSE, FALSE, <<>>, FALSE, <<>>)

\* What urlopen does: it raises (kind "raise"), or gives a response with a
\* status and a body that is JSON (json) or not.
Resp(kind, status, json, body) ==
    [kind |-> kind, status |-> status, json |-> json, body |-> body]
NoResp == Resp("none", 0, FALSE, EmptyBody)

\* A value DomoticzAPI returns: None, or the parsed JSON object.
ApiNone == [none |-> TRUE, body |-> EmptyBody]
ApiJson(b) == [none |-> FALSE, body |-> b]

\* A test that takes every value but None for true ("is not None").
TruthyNotNone(r) == ~r.none

\* bool(x) of such a value: None and the empty dict are false.
Truthy(r) ==
    /\ ~r.none
    /\ r.body.hasStatus \/ r.body.extra \/ r.body.hasResult \/ r.body.hasDz

\* A header that encodes the user name alone.
BasicHeaderUserOnly(user, pass) ==
    [present |-> TRUE, scheme |-> "Basic", cred |-> B64Encode(Bytes(user))]

\* The Authorization header DomoticzAPI builds.
BasicHeader(user, pass) ==
    [present |-> TRUE, scheme |-> "Basic",
     cred |-> B64Encode(Bytes(user \o <<":">> \o pass))]

\* A DomoticzAPI that logs a status other than "OK" and forgets to reset
\* resultJson to None.
ApiOutcomeKeepsErr(resp) ==
    CASE resp.kind = "raise" -> [ret |-> ApiNone, errors |-> 1]
      [] resp.kind # "raise" /\ resp.status # 200 -> [ret |-> ApiNone, errors |-> 1]
      [] resp.kind # "raise" /\ resp.status = 200 /\ ~resp.json ->
           [ret |-> ApiNone, errors |-> 1]
      [] resp.kind # "raise" /\ resp.status = 200 /\ resp.json
         /\ ~resp.body.hasStatus ->
           [ret |-> ApiJson(resp.body), errors |-> 1]
      [] resp.kind # "raise" /\ resp.status = 200 /\ resp.json
         /\ resp.body.hasStatus /\ resp.body.status # "OK" ->
           [ret |-> ApiJson(resp.body), errors |-> 1]
      [] OTHER -> [ret |-> ApiJson(resp.body), errors |-> 0]

\* What DomoticzAPI makes of the answer to its request: ret is the value it
\* returns, errors the number of Domoticz.Error lines. A JSON object without
\* a status member raises KeyError after resultJson was assigned, so the
\* object is returned.
ApiOutcome(resp) ==
    CASE resp.kind = "raise" -> [ret |-> ApiNone, errors |-> 1]
      [] resp.kind # "raise" /\ resp.status # 200 -> [ret |-> ApiNone, errors |-> 1]
      [] resp.kind # "raise" /\ resp.status = 200 /\ ~resp.json ->
           [ret |-> ApiNone, errors |-> 1]
      [] resp.kind # "raise" /\ resp.status = 200 /\ resp.json
         /\ ~resp.body.hasStatus ->
           [ret |-> ApiJson(resp.body), errors |-> 1]
      [] resp.kind # "raise" /\ resp.status = 200 /\ resp.json
         /\ resp.body.hasStatus /\ resp.body.status # "OK" ->
           [ret |-> ApiNone, errors |-> 1]
      [] OTHER -> [ret |-> ApiJson(resp.body), errors |-> 0]

\* DomoticzAPI(apiCall) when the host answers resp: sent is the request that
\* went out (none when encoding the credentials raised), ret the value
\* returned, errors the number of Domoticz.Error lines.
DomoticzAPI(apiCall, resp) ==
    IF /\ Username # <<>>
       /\ LET s == Username \o <<":">> \o Password
          IN  \E i \in 1..Len(s) : Ord(s[i]) >= 128
    THEN [sent |-> <<>>, ret |-> ApiNone, errors |-> 1]
    ELSE LET req == [call |-> apiCall,
                     auth |-> IF Username # <<>>
                              THEN BasicHeader(Username, Password)
                              ELSE [present |-> FALSE, scheme |-> "", cred |-> <<>>]]
             out == ApiOutcome(resp)
         IN  [sent |-> <<req>>, ret |-> out.ret, errors |-> out.errors]

(***************************************************************************)
(* The host: what it can answer, and what it stores.                       *)
(***************************************************************************)
NoVar == [exists |-> FALSE, value |-> <<>>]
HostVar(text) == [exists |-> TRUE, value |-> text]

\* urlopen raising URLError (no answer at all) or HTTPError (status 404), a
\* 2xx status other than 200, and a 200 whose body is not JSON.
FailResponses ==
    {Resp("raise", 0, FALSE, EmptyBody), Resp("raise", 404, FALSE, EmptyBody),
     Resp("http", 204, FALSE, EmptyBody), Resp("http", 200, FALSE, EmptyBody)}

JsonResponses(bodies) == {Resp("http", 200, TRUE, b) : b \in bodies}

\* The variables the host lists: this plugin's, when it exists, after those
\* of other plugins.
VarLists(hv) ==
    LET own == IF hv.exists THEN <<[Name |-> VarName, Value |-> hv.value]>> ELSE <<>>
    IN  {own, <<[Name |-> "other", Value |-> <<NumTok(0)>>]>> \o own}

ListResponses(hv) ==
    FailResponses \cup JsonResponses(
        {Body(TRUE, "OK", TRUE, TRUE, vl, FALSE, <<>>) : vl \in VarLists(hv)}
        \cup (IF hv.exists THEN {}
              ELSE {Body(TRUE, "OK", TRUE, FALSE, <<>>, FALSE, <<>>)})
        \cup {Body(TRUE, "ERR", TRUE, FALSE, <<>>, FALSE, <<>>), EmptyBody}
        \cup {Body(FALSE, "", FALSE, TRUE, vl, FALSE, <<>>) : vl \in VarLists(hv)})

VersionResponses ==
    FailResponses \cup JsonResponses(
        {Body(TRUE, "OK", TRUE, FALSE, <<>>, TRUE, v) :
            v \in {<<"2", ".", "4", ".", "8">>, <<"2", ".", "4", ".", "9">>,
                   <<"2", ".", "4", ".", "1", "0">>}}
        \cup {Body(TRUE, "OK", TRUE, FALSE, <<>>, FALSE, <<>>),
              Body(TRUE, "ERR", TRUE, FALSE, <<>>, FALSE, <<>>), EmptyBody})

PlainResponses ==
    FailResponses \cup JsonResponses(
        {Body(TRUE, "OK", TRUE, FALSE, <<>>, FALSE, <<>>),
         Body(TRUE, "ERR", TRUE, FALSE, <<>>, FALSE, <<>>), EmptyBody})

\* The host stored the value of a save/add/update request exactly when it
\* answered status OK.
Stored(resp) ==
    resp.kind = "http" /\ resp.status = 200 /\ resp.json
    /\ resp.body.hasStatus /\ resp.body.status = "OK"

HostAfter(hv, sent, resp) ==
    IF sent # <<>> /\ Stored(resp) THEN HostVar(sent[1].call.vvalue) ELSE hv

(***************************************************************************)
(* DomoticzWrapper.Debugging                                               *)
(***************************************************************************)
DebugLevelValue(level) ==
    CASE level = "ShowNone" -> 0 [] level = "ShowAll" -> 1
      [] level = "DebugFuncCalls" -> 2 [] level = "DebugHighLevelMessages" -> 4
      [] level = "DebugDevices" -> 8 [] level = "DebugConnections" -> 16
      [] level = "DebugImages" -> 32 [] level = "DumpData" -> 64
      [] level = "DebugMessageQueue" -> 128

\* Debugging(values) for a list of DomoticzDebugLevel members. "values is
\* int" compares the list with the type int and is false; both elif tests
\* are "ShowNone in values"; sum(values) adds a member of a plain Enum to 0
\* and raises TypeError, unless the list is empty. called: the host's
\* Debugging was called, with level.
Debugging(values) ==
    IF \E i \in 1..Len(values) : values[i] = "ShowNone"
    THEN [called |-> TRUE, level |-> 0, raised |-> NoExc]
    ELSE IF values = <<>>
         THEN [called |-> TRUE, level |-> 0, raised |-> NoExc]
    ELSE [called |-> FALSE, level |-> 0, raised |-> "TypeError"]

(***************************************************************************)
(* The wrapper the helper imports (module DomoticzWrapperClass).           *)
(***************************************************************************)
\* Debugging(values) of the imported DomoticzWrapper: the host's Debugging is
\* called once with the bitmask of the flags, and nothing is raised.
RECURSIVE WrapperDebugging(_)
WrapperDebugging(values) ==
    IF values = <<>> THEN 0
    ELSE IF \E i \in 2..Len(values) : values[i] = Head(values)
         THEN WrapperDebugging(Tail(values))
    ELSE DebugLevelValue(Head(values)) + WrapperDebugging(Tail(values))

\* DomoticzDevice(d, Name, Unit, DeviceType, ...).Create() of the imported
\* wrapper: the host's Create for unit u, on a host that holds the devices
\* devs. The host adds the device (created), or refuses to: its device
\* creation setting does not accept new devices.
WrapperDeviceCreate(u, devs, created) == IF created THEN devs \cup {u} ELSE devs

(***************************************************************************)
(* GetUserVar and SaveUserVar                                              *)
(***************************************************************************)
\* The loop over variables["result"]: the first variable named varname.
RECURSIVE FindVar(_)
FindVar(result) ==
    IF result = <<>> THEN [noVar |-> TRUE, valuestring |-> <<>>]
    ELSE IF Head(result).Name = VarName
         THEN [noVar |-> FALSE, valuestring |-> Head(result).Value]
    ELSE FindVar(Tail(result))

\* GetUserVar(), lines 146-158 and 187-196: the listing request, answered r1,
\* with Internals I and defaults D. When the listing yields nothing, an error
\* is logged and Internals becomes the defaults. When it holds the variable,
\* Internals is updated with the value eval() gives, and becomes the defaults
\* when eval() or update() raises. noVar: the variable has to be created.
\* The outcomes: one, unless update() iterates a set.
ReadVariables(I, D, r1) ==
    LET variables == DomoticzAPI(ListCall, r1)
    IN  IF ~Truthy(variables.ret)
        THEN {[noVar |-> FALSE, Internals |-> D, sent |-> variables.sent,
               ret |-> variables.ret, errors |-> variables.errors + 1]}
        ELSE
        LET search == IF variables.ret.body.hasResult
                      THEN FindVar(variables.ret.body.result)
                      ELSE [noVar |-> TRUE, valuestring |-> <<>>]
        IN  IF search.noVar
            THEN {[noVar |-> TRUE, Internals |-> I, sent |-> variables.sent,
                   ret |-> variables.ret, errors |-> variables.errors]}
            ELSE
            LET v == PyEval(search.valuestring)
                after == IF v.err # NoExc THEN {D}
                         ELSE {IF upd.err = NoExc THEN upd.val ELSE D :
                                  upd \in PyUpdate(I, v.val)}
            IN  {[noVar |-> FALSE, Internals |-> A, sent |-> variables.sent,
                  ret |-> variables.ret, errors |-> variables.errors] : A \in after}

\* GetUserVar(), lines 169-179: the version request, answered r2, and the
\* choice of the creation command. domoticzInfo["dzvents_version"] raises
\* KeyError when the reply holds no such key.
ChooseParameter(r2) ==
    LET domoticzInfo == DomoticzAPI(ApiCall("getversion", "", <<>>), r2)
        info == domoticzInfo.ret
    IN  IF Truthy(info) /\ ~info.body.hasDz
        THEN [raised |-> "KeyError", parameter |-> "",
              sent |-> domoticzInfo.sent, ret |-> info, errors |-> domoticzInfo.errors]
        ELSE [raised |-> NoExc,
              parameter |-> IF Truthy(info)
                               /\ VersionGE(LooseVersion(info.body.dz),
                                            LooseVersion(<<"2", ".", "4", ".", "9">>))
                            THEN "adduservariable" ELSE "saveuservariable",
              sent |-> domoticzInfo.sent, ret |-> info,
              errors |-> domoticzInfo.errors + (IF info.none THEN 1 ELSE 0)]

\* GetUserVar(), lines 182-186: the creation request, answered r3, on a host
\* that holds hv; vvalue is the text str(self.InternalsDefaults) gives;
\* Internals becomes the defaults D.
CreateVariable(D, vvalue, hv, parameter, r3) ==
    LET create == DomoticzAPI(ApiCall(parameter, VarName, vvalue), r3)
    IN  [Internals |-> D, hostVar |-> HostAfter(hv, create.sent, r3),
         sent |-> create.sent, ret |-> create.ret, errors |-> create.errors]

\* SaveUserVar() when str(self.Internals) gives vvalue and the host answers r.
SaveUserVarRun(vvalue, hv, r) ==
    LET api == DomoticzAPI(ApiCall("updateuservariable", VarName, vvalue), r)
    IN  [hostVar |-> HostAfter(hv, api.sent, r), requests |-> api.sent,
         replies |-> <<api.ret>>, errors |-> api.errors]

(***************************************************************************)
(* State of the helper and of its host.                                    *)
(***************************************************************************)
KeyA == StrObj(<<"a">>)
KeyB == StrObj(<<"b">>)
Units == 1..MaxUnit

\* The _internalsDefaults a plugin constructs the helper with.
DefaultsChoices ==
    {DictOf(<<Item(KeyA, IntObj(0))>>, EmptyDict),
     DictOf(<<Item(KeyA, IntObj(0)), Item(KeyB, StrObj(<<"x">>))>>, EmptyDict)}

\* Values of the variable that a user of the host can type in: {'b': 1},
\* {}, the truncated {'a':, 0, '', ['ab'], [('b', 1)] and {'b': {'a', 'b'}}.
EditedTexts ==
    PyStr(DictOf(<<Item(KeyB, IntObj(1))>>, EmptyDict)) \cup PyStr(EmptyDict)
    \cup {<<LBrace, StrTok(<<"a">>), Colon>>, <<NumTok(0)>>, <<StrTok(<<>>)>>,
          <<LBracket, StrTok(<<"a", "b">>), RBracket>>,
          <<LBracket, LParen, StrTok(<<"b">>), Comma, NumTok(1), RParen, RBracket>>,
          <<LBrace, StrTok(<<"b">>), Colon, LBrace, StrTok(<<"a">>), Comma,
            StrTok(<<"b">>), RBrace, RBrace>>}

NoSaved == [has |-> FALSE, M |-> EmptyDict]

\* The fields of a host image record; NoImage: no DomoticzImage was made.
Image(ID, Name, Base, Description) ==
    [ID |-> ID, Name |-> Name, Base |-> Base, Description |-> Description]
NoImage == Image(0, "", "", "")

\* A call on a host object: the method, and the unit of the device it is
\* made on or the number it is given.
HostCall(name, arg) == [name |-> name, arg |-> arg]

\* No InitDevice was called yet.
NoUnit == [t |-> "NoneType", n |-> 0, chars |-> <<>>]

csvVars == <<strCSV, pending, listValues, csvpc>>
paramVars == <<paramValue, paramDefault>>
cfgVars == <<InternalsDefaults, Username, Password>>
\* Arguments of the calls that are modelled on their own.
argVars == <<debugValues, image, unitArg>>

\* What an operation leaves to be observed of it; calls: the calls it made on
\* the host's Debugging, Device and Image objects. The plugin runs on one
\* thread: an operation starts when no GetUserVar() is in progress and no
\* request is waiting for its answer.
ObserveCalls(op, reqs, reps, errs, r, exc, calls) ==
    /\ uvpc = "idle"
    /\ UNCHANGED <<uvpc, uvParameter>>
    /\ lastOp' = op
    /\ requests' = reqs
    /\ replies' = reps
    /\ errors' = errs
    /\ ret' = r
    /\ raised' = exc
    /\ apiResp' = NoResp
    /\ hostCalls' = calls

Observe(op, reqs, reps, errs, r, exc) ==
    ObserveCalls(op, reqs, reps, errs, r, exc, <<>>)

\* request.urlopen(req) is given no timeout (line 93): on a host that takes
\* the connection and never answers, the call does not return and the one
\* thread of the plugin waits from then on. running names the operation that
\* waits, sent, reps and errs what it sent, got and logged before, calls its
\* calls on the host's objects. Nothing waits when no request goes out.
NeverAnswered(running, apiCall, sent, reps, errs, calls) ==
    /\ DomoticzAPI(apiCall, NoResp).sent # <<>>
    /\ uvpc' = "waiting"
    /\ lastOp' = running
    /\ requests' = sent \o DomoticzAPI(apiCall, NoResp).sent
    /\ replies' = reps
    /\ errors' = errs
    /\ ret' = PyNone
    /\ raised' = NoExc
    /\ apiResp' = NoResp
    /\ hostCalls' = calls
    /\ UNCHANGED <<uvParameter, cfgVars, Internals, InitializedDeviceUnits, hostVar,
                   Devices, saved, paramVars, csvVars, argVars, devValue, initCalls>>

InitIdle ==
    /\ lastOp = "init" /\ requests = <<>> /\ replies = <<>> /\ errors = 0
    /\ ret = PyNone /\ raised = NoExc /\ saved = NoSaved /\ apiResp = NoResp
    /\ paramValue = [t |-> "NoneType", n |-> 0, chars |-> <<>>] /\ paramDefault = 0
    /\ strCSV = <<>> /\ pending = <<>> /\ listValues = <<>> /\ csvpc = "idle"
    /\ debugLevel = 0
    /\ hostCalls = <<>> /\ devValue = [u \in Units |-> 0] /\ initCalls = {}
    /\ uvpc = "idle" /\ uvParameter = ""
    /\ debugValues = <<>> /\ image = NoImage /\ unitArg = NoUnit

\* DomoticzPluginHelper.__init__ on a host that holds no variable yet; the
\* host asks for no authentication, or the plugin is configured with a user
\* name that is not ASCII.
Init ==
    /\ InternalsDefaults \in DefaultsChoices
    /\ Internals = InternalsDefaults
    /\ InitializedDeviceUnits = {}
    /\ Username \in {<<>>, <<"é">>}
    /\ Password = <<>>
    /\ hostVar = NoVar
    /\ Devices = {}
    /\ InitIdle

(***************************************************************************)
(* Operations of the helper.                                               *)
(***************************************************************************)
\* A new helper object on the same host (the plugin restarts).
Restart ==
    /\ Internals' = InternalsDefaults
    /\ InitializedDeviceUnits' = {}
    /\ initCalls' = {}
    /\ Observe("__init__", <<>>, <<>>, 0, PyNone, NoExc)
    /\ UNCHANGED <<cfgVars, hostVar, Devices, debugLevel, saved, paramVars, csvVars,
                   argVars, devValue>>

\* The operation op calls GetUserVar() after making the calls on the host's
\* objects: the listing request and what follows it without another
\* request. The call returns here unless the variable has to be created;
\* lastOp then reads "(running)" until the operation returns.
GetUserVarBegin(op, calls) ==
    LET running == IF op = "onStart" THEN "onStart (running)"
                   ELSE "GetUserVar (running)"
    IN  /\ uvpc = "idle"
        /\ \/ \E r1 \in ListResponses(hostVar) :
                \E rd \in ReadVariables(Internals, InternalsDefaults, r1) :
                  /\ uvpc' = IF rd.noVar THEN "version" ELSE "idle"
                  /\ uvParameter' = ""
                  /\ lastOp' = IF rd.noVar THEN running ELSE op
                  /\ Internals' = rd.Internals
                  /\ requests' = rd.sent
                  /\ replies' = <<rd.ret>>
                  /\ errors' = rd.errors
                  /\ ret' = PyNone
                  /\ raised' = NoExc
                  /\ apiResp' = NoResp
                  /\ hostCalls' = calls
                  /\ UNCHANGED <<cfgVars, InitializedDeviceUnits, hostVar, Devices,
                                 saved, paramVars, csvVars, argVars, devValue,
                                 initCalls>>
           \/ NeverAnswered(running, ListCall, <<>>, <<>>, 0, calls)

GetUserVar ==
    /\ GetUserVarBegin("GetUserVar", <<>>)
    /\ UNCHANGED debugLevel

\* GetUserVar() goes on with the version request.
GetUserVarVersion ==
    /\ uvpc = "version"
    /\ UNCHANGED debugLevel
    /\ \/ \E r2 \in VersionResponses :
            LET v == ChooseParameter(r2)
            IN  /\ uvpc' = IF v.raised = NoExc THEN "create" ELSE "idle"
                /\ uvParameter' = v.parameter
                /\ lastOp' = IF v.raised = NoExc THEN lastOp
                             ELSE IF lastOp = "onStart (running)" THEN "onStart"
                             ELSE "GetUserVar"
                /\ requests' = requests \o v.sent
                /\ replies' = Append(replies, v.ret)
                /\ errors' = errors + v.errors
                /\ raised' = v.raised
                /\ UNCHANGED <<cfgVars, Internals, InitializedDeviceUnits, hostVar,
                               Devices, saved, ret, apiResp, hostCalls, paramVars,
                               csvVars, argVars, devValue, initCalls>>
       \/ NeverAnswered(lastOp, ApiCall("getversion", "", <<>>), requests, replies,
                        errors, hostCalls)

\* GetUserVar() ends with the creation request.
GetUserVarCreate ==
    /\ uvpc = "create"
    /\ UNCHANGED debugLevel
    /\ \E vvalue \in PyStr(InternalsDefaults) :
        \/ \E r3 \in PlainResponses :
            LET c == CreateVariable(InternalsDefaults, vvalue, hostVar, uvParameter, r3)
            IN  /\ uvpc' = "idle"
                /\ uvParameter' = ""
                /\ lastOp' = IF lastOp = "onStart (running)" THEN "onStart"
                             ELSE "GetUserVar"
                /\ Internals' = c.Internals
                /\ hostVar' = c.hostVar
                /\ saved' = IF c.hostVar = hostVar THEN saved ELSE NoSaved
                /\ requests' = requests \o c.sent
                /\ replies' = Append(replies, c.ret)
                /\ errors' = errors + c.errors
                /\ UNCHANGED <<cfgVars, InitializedDeviceUnits, Devices, ret, raised,
                               apiResp, hostCalls, paramVars, csvVars, argVars,
                               devValue, initCalls>>
        \/ NeverAnswered(lastOp, ApiCall(uvParameter, VarName, vvalue), requests,
                         replies, errors, hostCalls)

SaveUserVar ==
    /\ uvpc = "idle"
    /\ UNCHANGED debugLevel
    /\ \E vvalue \in PyStr(Internals) :
        \/ \E r \in PlainResponses :
            LET run == SaveUserVarRun(vvalue, hostVar, r)
            IN  /\ hostVar' = run.hostVar
                /\ saved' = IF run.requests # <<>> /\ Stored(r)
                            THEN [has |-> TRUE, M |-> Internals] ELSE saved
                /\ Observe("SaveUserVar", run.requests, run.replies, run.errors,
                           PyNone, NoExc)
                /\ UNCHANGED <<cfgVars, Internals, InitializedDeviceUnits, Devices,
                               paramVars, csvVars, argVars, devValue, initCalls>>
        \/ NeverAnswered("SaveUserVar (running)",
                         ApiCall("updateuservariable", VarName, vvalue),
                         <<>>, <<>>, 0, <<>>)

\* onStart: Debugging([ShowAll]), DumpConfigToLog() (Debug lines only), then
\* GetUserVar(), which goes on as GetUserVarVersion and GetUserVarCreate.
onStart ==
    LET level == WrapperDebugging(<<"ShowAll">>)
    IN  /\ debugLevel' = level
        /\ GetUserVarBegin("onStart", <<HostCall("Debugging", level)>>)

\* An onStop that saves the variables before the plugin stops.
onStopSaving ==
    LET level == WrapperDebugging(<<"ShowNone">>)
    IN  \E r \in PlainResponses, vvalue \in PyStr(Internals) :
            LET run == SaveUserVarRun(vvalue, hostVar, r)
            IN  /\ debugLevel' = level
                /\ hostVar' = run.hostVar
                /\ saved' = IF run.requests # <<>> /\ Stored(r)
                            THEN [has |-> TRUE, M |-> Internals] ELSE saved
                /\ ObserveCalls("onStop", run.requests, run.replies, run.errors,
                                PyNone, NoExc, <<HostCall("Debugging", level)>>)
                /\ UNCHANGED <<cfgVars, Internals, InitializedDeviceUnits, Devices,
                               paramVars, csvVars, argVars, devValue, initCalls>>

\* onStop: Debugging([ShowNone])
onStop ==
    LET level == WrapperDebugging(<<"ShowNone">>)
    IN  /\ debugLevel' = level
        /\ ObserveCalls("onStop", <<>>, <<>>, 0, PyNone, NoExc,
                        <<HostCall("Debugging", level)>>)
        /\ UNCHANGED <<cfgVars, Internals, InitializedDeviceUnits, hostVar, Devices,
                       saved, paramVars, csvVars, argVars, devValue, initCalls>>

\* A callback that writes one Log or Debug line and nothing else.
LogOnly(op) ==
    /\ Observe(op, <<>>, <<>>, 0, PyNone, NoExc)
    /\ UNCHANGED <<cfgVars, Internals, InitializedDeviceUnits, hostVar, Devices,
                   debugLevel, saved, paramVars, csvVars, argVars, devValue, initCalls>>

onConnect == LogOnly("onConnect")
onMessage == LogOnly("onMessage")
onCommand == LogOnly("onCommand")
onNotification == LogOnly("onNotification")
onDisconnect == LogOnly("onDisconnect")

\* An onHeartbeat that is content when one of the devices is present.
onHeartbeatAnyDevice ==
    /\ Observe("onHeartbeat", <<>>, <<>>,
               IF \E device \in InitializedDeviceUnits : device \in Devices
               THEN 0 ELSE 1,
               PyNone, NoExc)
    /\ UNCHANGED <<cfgVars, Internals, InitializedDeviceUnits, hostVar, Devices,
                   debugLevel, saved, paramVars, csvVars, argVars, devValue, initCalls>>

onHeartbeat ==
    /\ Observe("onHeartbeat", <<>>, <<>>,
               IF \A device \in InitializedDeviceUnits : device \in Devices
               THEN 0 ELSE 1,
               PyNone, NoExc)
    /\ UNCHANGED <<cfgVars, Internals, InitializedDeviceUnits, hostVar, Devices,
                   debugLevel, saved, paramVars, csvVars, argVars, devValue, initCalls>>

\* The Unit arguments: an int, or a str holding its decimal digit.
UnitArgs ==
    {[t |-> "int", n |-> u, chars |-> <<>>] : u \in Units}
    \cup {[t |-> "str", n |-> 0, chars |-> <<c>>] :
             c \in {d \in Digits : DigitVal(d) \in Units}}

\* int(Unit)
IntOfUnit(Unit) == IF Unit.t = "int" THEN Unit.n ELSE PyIntOfStr(Unit.chars).n

\* An InitDevice that records the unit once the device is known to exist.
InitDeviceRunAddLast(Unit, units, devs, created) ==
    LET u == IntOfUnit(Unit)
        after == IF u \in devs THEN devs ELSE WrapperDeviceCreate(u, devs, created)
    IN  [InitializedDeviceUnits |-> IF u \in after THEN units \cup {u} ELSE units,
         Devices |-> after,
         calls |-> IF u \in devs THEN <<>>
                   ELSE IF u \in after
                        THEN <<HostCall("Create", u), HostCall("Update", u)>>
                   ELSE <<HostCall("Create", u)>>,
         raised |-> IF u \in after THEN NoExc ELSE "KeyError"]

\* InitDevice(Name, Unit, DeviceType, ...) with InitializedDeviceUnits units on
\* a host that holds the devices devs: the unit is recorded; for a unit the
\* host does not hold, the device is created through the wrapper, and
\* Devices[int(Unit)] is then updated with the default values. When the
\* host did not add the device, Devices[int(Unit)] raises KeyError (line
\* 229) and no Update is made.
InitDeviceRun(Unit, units, devs, created) ==
    LET u == IntOfUnit(Unit)
        after == IF u \in devs THEN devs ELSE WrapperDeviceCreate(u, devs, created)
    IN  [InitializedDeviceUnits |-> units \cup {u},
         Devices |-> after,
         calls |-> IF u \in devs THEN <<>>
                   ELSE IF u \in after
                        THEN <<HostCall("Create", u), HostCall("Update", u)>>
                   ELSE <<HostCall("Create", u)>>,
         raised |-> IF u \in after THEN NoExc ELSE "KeyError"]

\* InitDevice called with the default nValue 0 and sValue ''.
InitDeviceCall(Unit) ==
    \E created \in BOOLEAN :
        LET run == InitDeviceRun(Unit, InitializedDeviceUnits, Devices, created)
            u == IntOfUnit(Unit)
        IN  /\ u \in Devices => created
            /\ InitializedDeviceUnits' = run.InitializedDeviceUnits
            /\ initCalls' = initCalls \cup {Unit}
            /\ unitArg' = Unit
            /\ Devices' = run.Devices
            /\ devValue' = IF u \in run.Devices \ Devices
                           THEN [devValue EXCEPT ![u] = 0] ELSE devValue
            /\ ObserveCalls("InitDevice", <<>>, <<>>, 0, PyNone, run.raised, run.calls)
            /\ UNCHANGED <<cfgVars, Internals, hostVar, debugLevel, saved, paramVars,
                           csvVars, debugValues, image>>

InitDevice == \E Unit \in UnitArgs : InitDeviceCall(Unit)

\* The plugin initializes its one device, of unit 1.
InitDevice1 == InitDeviceCall([t |-> "int", n |-> 1, chars |-> <<>>])

(***************************************************************************)
(* The plugin that owns the helper, and the host's user.                   *)
(***************************************************************************)
\* Plugin code assigns self.Internals[k] = v.
SetInternal ==
    \E k \in {KeyA, KeyB},
       v \in {IntObj(n) : n \in 0..MaxInt}
             \cup {StrObj(<<"x">>), Obj("float", 0, <<"n", "a", "n">>, <<>>, {})} :
        /\ Internals' = DictSet(Internals, k, v)
        /\ saved' = NoSaved
        /\ Observe("plugin", <<>>, <<>>, 0, PyNone, NoExc)
        /\ UNCHANGED <<cfgVars, InitializedDeviceUnits, hostVar, Devices, debugLevel,
                       paramVars, csvVars, argVars, devValue, initCalls>>

\* A step of the host is taken at any time, also between two requests of a
\* GetUserVar() in progress, whose observations it leaves as they are.
HostObserve ==
    IF uvpc = "idle"
    THEN Observe("host", <<>>, <<>>, 0, PyNone, NoExc)
    ELSE UNCHANGED <<uvpc, uvParameter, lastOp, requests, replies, errors, ret, raised, apiResp,
                     hostCalls>>

\* The user edits or deletes the variable on the host.
HostEditVar ==
    \E hv \in {NoVar} \cup {HostVar(t) : t \in EditedTexts} :
        /\ hv # hostVar
        /\ hostVar' = hv
        /\ saved' = NoSaved
        /\ HostObserve
        /\ UNCHANGED <<cfgVars, Internals, InitializedDeviceUnits, Devices, debugLevel,
                       paramVars, csvVars, argVars, devValue, initCalls>>

\* The host adds or removes a device of the plugin.
HostSetDevices ==
    \E ds \in SUBSET Units :
        /\ ds # Devices
        /\ Devices' = ds
        /\ devValue' = [u \in Units |-> IF u \in ds THEN devValue[u] ELSE 0]
        /\ HostObserve
        /\ UNCHANGED <<cfgVars, Internals, InitializedDeviceUnits, hostVar, debugLevel,
                       saved, paramVars, csvVars, argVars, initCalls>>

(***************************************************************************)
(* DomoticzDevice: the wrapper of one host device (self._Device).          *)
(***************************************************************************)
\* What a method of the host's device of unit u does to the host's devices:
\* Create adds the device, Update sets its value, Delete removes it, Touch
\* and Refresh leave the devices as they are.
HostDeviceDo(name, u, n, devs, vals) ==
    CASE name = "Create" ->
           [Devices |-> devs \cup {u}, devValue |-> [vals EXCEPT ![u] = 0]]
      [] name = "Update" ->
           [Devices |-> devs, devValue |-> [vals EXCEPT ![u] = n]]
      [] name = "Delete" ->
           [Devices |-> devs \ {u}, devValue |-> [vals EXCEPT ![u] = 0]]
      [] OTHER -> [Devices |-> devs, devValue |-> vals]

\* A method of DomoticzDevice that forwards to the method name of _Device.
DeviceForward(op, name, u, n) ==
    LET host == HostDeviceDo(name, u, n, Devices, devValue)
    IN  /\ Devices' = host.Devices
        /\ devValue' = host.devValue
        /\ ObserveCalls(op, <<>>, <<>>, 0, PyNone, NoExc, <<HostCall(name, u)>>)
        /\ UNCHANGED <<cfgVars, Internals, InitializedDeviceUnits, hostVar, debugLevel,
                       saved, paramVars, csvVars, argVars, initCalls>>

\* DomoticzDevice(Name, Unit, ...).Create()
DeviceCreate == \E u \in Units \ Devices : DeviceForward("Device.Create", "Create", u, 0)

\* Update(nValue, sValue)
DeviceUpdate ==
    \E u \in Devices, n \in 0..MaxInt : DeviceForward("Device.Update", "Update", u, n)

\* Delete(): self._Device.Delete()
DeviceDelete == \E u \in Devices : DeviceForward("Device.Delete", "Delete", u, 0)

\* Refresh(): self._Device.Delete()
DeviceRefresh == \E u \in Devices : DeviceForward("Device.Refresh", "Delete", u, 0)

\* Touch(): self._Device.Touch()
DeviceTouch == \E u \in Devices : DeviceForward("Device.Touch", "Touch", u, 0)

\* The persisted variable: the helper, the plugin that owns it and the host.
Next ==
    \/ Restart \/ GetUserVar \/ GetUserVarVersion \/ GetUserVarCreate
    \/ SaveUserVar \/ SetInternal \/ HostEditVar

\* The callbacks of the plugin framework, on a plugin with one device that
\* assigns to its internal variables.
NextCallbacks ==
    \/ Restart \/ GetUserVar \/ GetUserVarVersion \/ GetUserVarCreate
    \/ SaveUserVar \/ onStart \/ onStop
    \/ onConnect \/ onMessage \/ onCommand \/ onNotification \/ onDisconnect
    \/ onHeartbeat \/ InitDevice1 \/ SetInternal

Spec == Init /\ [][Next]_vars

\* DomoticzPluginHelper.__init__ of a plugin with one internal variable, on a
\* host that asks for no authentication and holds no variable and no device.
InitCallbacks ==
    /\ InternalsDefaults = DictOf(<<Item(KeyA, IntObj(0))>>, EmptyDict)
    /\ Internals = InternalsDefaults
    /\ InitializedDeviceUnits = {}
    /\ Username = <<>>
    /\ Password = <<>>
    /\ hostVar = NoVar
    /\ Devices = {}
    /\ InitIdle

SpecCallbacks == InitCallbacks /\ [][NextCallbacks]_vars

\* The devices: the wrapper of a device, the helper's bookkeeping, the host.
NextDevices ==
    \/ DeviceCreate \/ DeviceUpdate \/ DeviceDelete \/ DeviceRefresh \/ DeviceTouch
    \/ InitDevice \/ onHeartbeat \/ HostSetDevices \/ Restart

SpecDevices == InitCallbacks /\ [][NextDevices]_vars

(***************************************************************************)
(* DomoticzAPI called on its own, under every configuration of credentials.*)
(***************************************************************************)
InitAPI ==
    /\ InternalsDefaults = DictOf(<<Item(KeyA, IntObj(0))>>, EmptyDict)
    /\ Internals = InternalsDefaults
    /\ InitializedDeviceUnits = {}
    /\ Username \in {<<>>, <<"u">>, <<"a", "b">>, <<"é">>}
    /\ Password \in {<<>>, <<"p">>, <<"p", "w">>}
    /\ hostVar \in {NoVar} \cup {HostVar(text) : text \in PyStr(InternalsDefaults)}
    /\ Devices = {}
    /\ InitIdle

CallDomoticzAPI ==
    /\ uvpc = "idle"
    /\ UNCHANGED debugLevel
    /\ \E call \in {ListCall, ApiCall("getversion", "", <<>>)} :
        \/ \E resp \in IF call = ListCall THEN ListResponses(hostVar)
                        ELSE VersionResponses :
            LET api == DomoticzAPI(call, resp)
            IN  /\ UNCHANGED <<uvpc, uvParameter>>
                /\ lastOp' = "DomoticzAPI"
                /\ requests' = api.sent
                /\ replies' = <<api.ret>>
                /\ errors' = api.errors
                /\ ret' = PyNone
                /\ raised' = NoExc
                /\ apiResp' = resp
                /\ hostCalls' = <<>>
                /\ UNCHANGED <<cfgVars, Internals, InitializedDeviceUnits, hostVar,
                               Devices, saved, paramVars, csvVars, argVars, devValue,
                               initCalls>>
        \/ NeverAnswered("DomoticzAPI (running)", call, <<>>, <<>>, 0, <<>>)

NextAPI == CallDomoticzAPI \/ SaveUserVar

SpecAPI == InitAPI /\ [][NextAPI]_vars

(***************************************************************************)
(* CheckParam                                                              *)
(***************************************************************************)
\* A value given to CheckParam: a str (chars), an int (n), a float (n is
\* its integer part), None or a list.
ParamVal(t, n, chars) == [t |-> t, n |-> n, chars |-> chars]

ParamValues ==
    {ParamVal("str", 0, cs) :
        cs \in UNION {[1..len -> {"1", "2", "-", "+", " ", "a", ".", "_"}] :
                         len \in 0..MaxLen}}
    \cup {ParamVal("int", 3, <<>>), ParamVal("float", 1, <<>>),
          ParamVal("NoneType", 0, <<>>), ParamVal("list", 0, <<>>)}

\* CheckParam(name, value, default): int(value) raises ValueError for a str
\* that is no integer literal, TypeError for None and for a list, and
\* truncates a float; only ValueError is caught.
CheckParamRun(value, default) ==
    CASE value.t = "str" ->
           LET parsed == PyIntOfStr(value.chars)
           IN  IF parsed.ok
               THEN [ret |-> PyIntVal(parsed.n), errors |-> 0, raised |-> NoExc]
               ELSE [ret |-> PyIntVal(default), errors |-> 1, raised |-> NoExc]
      [] value.t \in {"int", "float"} ->
           [ret |-> PyIntVal(value.n), errors |-> 0, raised |-> NoExc]
      [] OTHER -> [ret |-> PyNone, errors |-> 0, raised |-> "TypeError"]

\* The state in which nothing has been called yet.
InitRest ==
    /\ InternalsDefaults = EmptyDict
    /\ Internals = InternalsDefaults
    /\ InitializedDeviceUnits = {}
    /\ Username = <<>>
    /\ Password = <<>>
    /\ hostVar = NoVar
    /\ Devices = {}
    /\ lastOp = "init" /\ requests = <<>> /\ replies = <<>> /\ errors = 0
    /\ ret = PyNone /\ raised = NoExc /\ saved = NoSaved /\ apiResp = NoResp
    /\ debugLevel = 0
    /\ hostCalls = <<>> /\ devValue = [u \in Units |-> 0] /\ initCalls = {}
    /\ uvpc = "idle" /\ uvParameter = ""

\* The arguments of the call are drawn; CheckParam is then applied to them.
InitParam ==
    /\ InitRest
    /\ debugValues = <<>> /\ image = NoImage /\ unitArg = NoUnit
    /\ paramValue \in ParamValues
    /\ paramDefault \in {0, 5}
    /\ strCSV = <<>> /\ pending = <<>> /\ listValues = <<>> /\ csvpc = "idle"

CheckParam ==
    /\ lastOp = "init"
    /\ LET run == CheckParamRun(paramValue, paramDefault)
       IN  Observe("CheckParam", <<>>, <<>>, run.errors, run.ret, run.raised)
    /\ UNCHANGED <<cfgVars, Internals, InitializedDeviceUnits, hostVar, Devices,
                   debugLevel, saved, paramVars, csvVars, argVars, devValue, initCalls>>

SpecParam == InitParam /\ [][CheckParam]_vars

(***************************************************************************)
(* ParseCSV                                                                *)
(***************************************************************************)
CSVStrings ==
    UNION {[1..len -> {"1", "2", ",", " ", "a", "-"}] : len \in 0..MaxCSVLen}

\* A loop body that keeps a value only the first time it is met.
ParseCSVBodyNoDup(list, value) ==
    LET val == PyIntOfStr(Strip(value))
    IN  IF val.ok /\ \A i \in 1..Len(list) : list[i] # val.n
        THEN Append(list, val.n) ELSE list

\* One pass of the loop body: int(value.strip()) appended unless it raises.
ParseCSVBody(list, value) ==
    LET val == PyIntOfStr(Strip(value))
    IN  IF val.ok THEN Append(list, val.n) ELSE list

\* The argument of the call is drawn.
InitCSV ==
    /\ InitRest
    /\ debugValues = <<>> /\ image = NoImage /\ unitArg = NoUnit
    /\ paramValue = ParamVal("NoneType", 0, <<>>) /\ paramDefault = 0
    /\ strCSV \in CSVStrings
    /\ pending = <<>> /\ listValues = <<>> /\ csvpc = "idle"

\* ParseCSV is called: listValues = [] and the iteration over
\* strCSV.split(",") starts.
ParseCSVCall ==
    /\ csvpc = "idle"
    /\ pending' = Split(strCSV, ",")
    /\ listValues' = <<>>
    /\ csvpc' = "loop"
    /\ UNCHANGED <<cfgVars, Internals, InitializedDeviceUnits, hostVar, Devices,
                   debugLevel, saved, paramVars, lastOp, requests, replies, errors,
                   ret, raised, apiResp, strCSV,
                   hostCalls, argVars, devValue, initCalls, uvpc, uvParameter>>

ParseCSVLoop ==
    /\ csvpc = "loop"
    /\ pending # <<>>
    /\ listValues' = ParseCSVBody(listValues, Head(pending))
    /\ pending' = Tail(pending)
    /\ UNCHANGED <<cfgVars, Internals, InitializedDeviceUnits, hostVar, Devices,
                   debugLevel, saved, paramVars, lastOp, requests, replies, errors,
                   ret, raised, apiResp, strCSV, csvpc,
                   hostCalls, argVars, devValue, initCalls, uvpc, uvParameter>>

ParseCSVReturn ==
    /\ csvpc = "loop"
    /\ pending = <<>>
    /\ csvpc' = "done"
    /\ UNCHANGED <<cfgVars, Internals, InitializedDeviceUnits, hostVar, Devices,
                   debugLevel, saved, paramVars, lastOp, requests, replies, errors,
                   ret, raised, apiResp, strCSV, pending, listValues,
                   hostCalls, argVars, devValue, initCalls, uvpc, uvParameter>>

NextCSV == ParseCSVCall \/ ParseCSVLoop \/ ParseCSVReturn

SpecCSV == InitCSV /\ [][NextCSV]_vars

(***************************************************************************)
(* What the claims speak of, stated without the helper's code.             *)
(***************************************************************************)
\* An integer literal: blanks, an optional sign, digits that single
\* underscores may separate, blanks.
IsLiteralCore(c) ==
    LET d == IF c[1] \in {"+", "-"} THEN Tail(c) ELSE c
    IN  /\ Len(d) >= 1
        /\ d[1] \in Digits /\ d[Len(d)] \in Digits
        /\ \A k \in 1..Len(d) : d[k] \in Digits \cup {"_"}
        /\ \A k \in 1..(Len(d) - 1) : ~(d[k] = "_" /\ d[k + 1] = "_")

LooksNumeric(t) ==
    \E i, j \in 1..Len(t) :
        /\ i <= j
        /\ \A k \in 1..Len(t) : (k < i \/ k > j) => t[k] = " "
        /\ IsLiteralCore(SubSeq(t, i, j))

RECURSIVE Pow10(_)
Pow10(n) == IF n = 0 THEN 1 ELSE 10 * Pow10(n - 1)

RECURSIVE PlaceSum(_, _)
PlaceSum(digs, k) ==
    IF k > Len(digs) THEN 0
    ELSE DigitVal(digs[k]) * Pow10(Len(digs) - k) + PlaceSum(digs, k + 1)

IsDigit(c) == c \in Digits

\* The number an integer literal denotes: its digits weighted by place.
NumericValue(t) ==
    LET mag == PlaceSum(SelectSeq(t, IsDigit), 1)
    IN  IF \E k \in 1..Len(t) : t[k] = "-" THEN 0 - mag ELSE mag

\* The comma-separated pieces of s, as pairs <<b, e>>: the piece lies
\* strictly between positions b and e, which are commas or the two ends.
Pieces(s) ==
    LET cuts == {0, Len(s) + 1} \cup {i \in 1..Len(s) : s[i] = ","}
    IN  {p \in cuts \X cuts :
            p[1] < p[2] /\ \A c \in cuts : ~(p[1] < c /\ c < p[2])}

PieceText(s, p) == SubSeq(s, p[1] + 1, p[2] - 1)

NumericPieces(s) == {p \in Pieces(s) : LooksNumeric(PieceText(s, p))}

\* The integers among the pieces of s, in the order of s.
ExpectedCSV(s) ==
    LET np == NumericPieces(s)
        rank(p) == Cardinality({q \in np : q[1] < p[1]}) + 1
    IN  [i \in 1..Cardinality(np) |->
            NumericValue(PieceText(s, CHOOSE p \in np : rank(p) = i))]

\* base64 read back: the bytes four characters stand for.
B64Index(c) == CHOOSE i \in 0..63 : B64Alphabet[i + 1] = c

RECURSIVE B64Decode(_)
B64Decode(cs) ==
    IF Len(cs) < 4 THEN <<>>
    ELSE LET pad == IF cs[3] = "=" THEN 2 ELSE IF cs[4] = "=" THEN 1 ELSE 0
             n == B64Index(cs[1]) * 262144 + B64Index(cs[2]) * 4096
                  + (IF pad > 1 THEN 0 ELSE B64Index(cs[3]) * 64)
                  + (IF pad > 0 THEN 0 ELSE B64Index(cs[4]))
             three == <<n \div 65536, (n \div 256) % 256, n % 256>>
         IN  SubSeq(three, 1, 3 - pad) \o B64Decode(SubSeq(cs, 5, Len(cs)))

\* The answer is HTTP 200 with a JSON object whose status is "OK".
IsOK(resp) ==
    resp.kind = "http" /\ resp.status = 200 /\ resp.json
    /\ resp.body.hasStatus /\ resp.body.status = "OK"

\* The answer is an HTTP status other than 200, or a 200 whose JSON status
\* is not "OK".
IsNotOK(resp) ==
    \/ resp.kind = "http" /\ resp.status # 200
    \/ resp.kind = "raise" /\ resp.status # 0
    \/ resp.kind = "http" /\ resp.status = 200 /\ resp.json
       /\ resp.body.hasStatus /\ resp.body.status # "OK"

(***************************************************************************)
(* DomoticzWrapper.Debugging called on its own, with every short list.     *)
(***************************************************************************)
DebugLevels ==
    {"ShowNone", "ShowAll", "DebugFuncCalls", "DebugHighLevelMessages",
     "DebugDevices", "DebugConnections", "DebugImages", "DumpData",
     "DebugMessageQueue"}

\* The lists given to Debugging, among them the one its documentation
\* gives: 2+4+8+16+32.
DebugLists ==
    UNION {[1..len -> DebugLevels] : len \in 0..MaxFlags}
    \cup {<<"DebugFuncCalls", "DebugHighLevelMessages", "DebugDevices",
            "DebugConnections", "DebugImages">>}

InitDebug ==
    /\ InitRest
    /\ debugValues \in DebugLists
    /\ image = NoImage /\ unitArg = NoUnit
    /\ paramValue = [t |-> "NoneType", n |-> 0, chars |-> <<>>] /\ paramDefault = 0
    /\ strCSV = <<>> /\ pending = <<>> /\ listValues = <<>> /\ csvpc = "idle"

CallDebugging ==
    /\ lastOp = "init"
    /\ LET dbg == Debugging(debugValues)
       IN  /\ debugLevel' = IF dbg.called THEN dbg.level ELSE debugLevel
           /\ ObserveCalls("Debugging", <<>>, <<>>, 0, PyNone, dbg.raised,
                           IF dbg.called THEN <<HostCall("Debugging", dbg.level)>>
                           ELSE <<>>)
    /\ UNCHANGED <<cfgVars, Internals, InitializedDeviceUnits, hostVar, Devices,
                   saved, paramVars, csvVars, argVars, devValue, initCalls>>

SpecDebug == InitDebug /\ [][CallDebugging]_vars

(***************************************************************************)
(* DomoticzImage: the wrapper of one host image record (self._image).      *)
(***************************************************************************)
\* The records the host's Image(filename) can give.
Images ==
    {Image(id, name, base, descr) :
        id \in 1..MaxImageID, name \in {"Icon", "Key"}, base \in {"Key", "Base"},
        descr \in {"Icon", "An icon"}}

InitImage ==
    /\ InitRest
    /\ image \in Images
    /\ debugValues = <<>> /\ unitArg = NoUnit
    /\ paramValue = [t |-> "NoneType", n |-> 0, chars |-> <<>>] /\ paramDefault = 0
    /\ strCSV = <<>> /\ pending = <<>> /\ listValues = <<>> /\ csvpc = "idle"

\* A property of DomoticzImage that returns r.
ImageProperty(op, r) ==
    /\ Observe(op, <<>>, <<>>, 0, r, NoExc)
    /\ UNCHANGED <<cfgVars, Internals, InitializedDeviceUnits, hostVar, Devices,
                   debugLevel, saved, paramVars, csvVars, argVars, devValue, initCalls>>

\* ID: return self._image.ID
ImageID == ImageProperty("Image.ID", PyIntVal(image.ID))

\* Name: return self._image.ID
ImageName == ImageProperty("Image.Name", PyIntVal(image.ID))

\* Base: return self._image.ID
ImageBase == ImageProperty("Image.Base", PyIntVal(image.ID))

\* Description: return self._image.ID
ImageDescription == ImageProperty("Image.Description", PyIntVal(image.ID))

\* A method of DomoticzImage that hands over to the same method of the host's
\* image object and returns what that returns (None); the wrapper keeps its
\* record.
ImageMethod(op, name) ==
    /\ ObserveCalls(op, <<>>, <<>>, 0, PyNone, NoExc, <<HostCall(name, image.ID)>>)
    /\ UNCHANGED <<cfgVars, Internals, InitializedDeviceUnits, hostVar, Devices,
                   debugLevel, saved, paramVars, csvVars, argVars, devValue, initCalls>>

\* Create: return self._image.Create()
ImageCreate == ImageMethod("Image.Create", "Create")

\* Delete: return self._image.Delete()
ImageDelete == ImageMethod("Image.Delete", "Delete")

NextImage ==
    ImageID \/ ImageName \/ ImageBase \/ ImageDescription \/ ImageCreate \/ ImageDelete

SpecImage == InitImage /\ [][NextImage]_vars

(***************************************************************************)
(* Claims                                                                  *)
(***************************************************************************)
\* The listing of the last operation was answered with status "OK" and
\* gave the variable with the text SaveUserVar stored.
\* a == b of Python: dicts hold equal values under the same keys, whatever
\* the order; lists and tuples are equal element by element.
RECURSIVE PyEq(_, _)
PyEq(a, b) ==
    IF a.t # b.t THEN FALSE
    ELSE IF a.t = "dict"
    THEN /\ DictKeys(a) = DictKeys(b)
         /\ \A k \in DictKeys(a) : PyEq(DictGet(a, k), DictGet(b, k))
    ELSE IF a.t \in {"list", "tuple"}
    THEN /\ Len(a.items) = Len(b.items)
         /\ \A i \in 1..Len(a.items) : PyEq(a.items[i], b.items[i])
    ELSE a = b

ReliableRead ==
    /\ replies # <<>> /\ ~replies[1].none
    /\ replies[1].body.hasStatus /\ replies[1].body.status = "OK"
    /\ replies[1].body.hasResult
    /\ ~FindVar(replies[1].body.result).noVar
    /\ FindVar(replies[1].body.result).valuestring \in PyStr(saved.M)

\* C1: for every mapping M held in Internals, SaveUserVar followed by
\* GetUserVar, in the same helper or in a restarted one, leaves Internals
\* equal to M when the host stores the variable and returns it unchanged.
C1_RoundTrip ==
    (lastOp = "GetUserVar" /\ saved.has /\ ReliableRead) => PyEq(Internals, saved.M)

\* C2: when the host variable is absent, or its value does not parse into a
\* mapping, Internals equals InternalsDefaults after GetUserVar; when it is
\* absent a creation request carrying the default mapping is also sent.
C2_ResetToDefaults ==
    (lastOp = "GetUserVar" /\ replies # <<>> /\ Truthy(replies[1])) =>
        LET search == IF replies[1].body.hasResult
                      THEN FindVar(replies[1].body.result)
                      ELSE [noVar |-> TRUE, valuestring |-> <<>>]
            parsed == PyEval(search.valuestring)
            absent == search.noVar
            corrupt == ~search.noVar /\ ~(parsed.err = NoExc /\ parsed.val.t = "dict")
        IN  /\ (absent \/ corrupt) => Internals = InternalsDefaults
            /\ absent =>
                 \E i \in 1..Len(requests) :
                     /\ requests[i].call.param \in {"saveuservariable", "adduservariable"}
                     /\ requests[i].call.vvalue \in PyStr(InternalsDefaults)

\* C3: DomoticzAPI, on a non-200 HTTP response or on a 200 response whose
\* JSON status is not "OK", logs an error and returns None.
C3_ErrorAndNone ==
    (lastOp = "DomoticzAPI" /\ requests # <<>> /\ IsNotOK(apiResp)) =>
        errors = 1 /\ replies = <<ApiNone>>

C3_Witness ==
    /\ lastOp = "DomoticzAPI" /\ requests # <<>>
    /\ apiResp.kind = "http" /\ apiResp.status = 200 /\ apiResp.json
    /\ apiResp.body.hasStatus /\ apiResp.body.status = "ERR"
    /\ errors = 1 /\ replies = <<ApiNone>>

\* C4: DomoticzAPI returns a value other than None only when the HTTP status
\* is 200 and the body is JSON with status "OK"; in every other case it
\* returns None, and it never raises.
C4_ResultOnlyWhenOK ==
    lastOp = "DomoticzAPI" =>
        /\ raised = NoExc
        /\ ~replies[1].none => IsOK(apiResp)

\* C5: CheckParam returns the parsed integer for every numeric-looking
\* string and the supplied default for every other string.
C5_CheckParamStrings ==
    (lastOp = "CheckParam" /\ paramValue.t = "str") =>
        /\ raised = NoExc
        /\ ret = PyIntVal(IF LooksNumeric(paramValue.chars)
                          THEN NumericValue(paramValue.chars) ELSE paramDefault)

C5_Witness ==
    /\ lastOp = "CheckParam"
    /\ paramValue = ParamVal("str", 0, <<" ", "-", "2">>)
    /\ paramDefault = 5
    /\ ret = PyIntVal(-2)

\* C6: CheckParam never raises: for every value that is not an integer
\* (None and lists included) it logs exactly one error and returns the
\* default, and for an integer it logs no error.
C6_CheckParamNeverRaises ==
    lastOp = "CheckParam" =>
        LET isInteger == \/ paramValue.t = "int"
                         \/ paramValue.t = "str" /\ LooksNumeric(paramValue.chars)
        IN  /\ raised = NoExc
            /\ isInteger => errors = 0
            /\ ~isInteger => errors = 1 /\ ret = PyIntVal(paramDefault)

\* C7: ParseCSV returns exactly the comma-separated tokens that parse as
\* integers, as integers, in their order and with duplicates kept; the
\* other tokens are dropped and nothing is raised.
C7_ParseCSV == csvpc = "done" => listValues = ExpectedCSV(strCSV)

C7_Witness ==
    /\ csvpc = "done"
    /\ strCSV = <<"1", ",", "a", ",", "1">>
    /\ listValues = <<1, 1>>

\* C8: no retries. No operation sends a request twice. SaveUserVar issues
\* exactly one request; GetUserVar issues at most three, in the order
\* listing, version, creation, and exactly one when the listing fails;
\* GetUserVar terminates in every case: while it is in progress, its next
\* step can be taken.
C8_NoRetries ==
    /\ \A i, j \in 1..Len(requests) : i # j => requests[i] # requests[j]
    /\ lastOp = "SaveUserVar" => Len(requests) = 1
    /\ lastOp = "GetUserVar" =>
         /\ Len(requests) \in 1..3
         /\ ~Truthy(replies[1]) => Len(requests) = 1
         /\ \A i \in 1..Len(requests) :
              requests[i].call.param \in
                  <<{"getuservariables"}, {"getversion"},
                    {"saveuservariable", "adduservariable"}>>[i]
    /\ lastOp = "GetUserVar (running)" =>
         ENABLED (GetUserVarVersion \/ GetUserVarCreate)

\* C9: onStart performs the read (GetUserVar: its first call is the
\* listing); the text of Internals is sent to the host by SaveUserVar alone,
\* with updateuservariable (the one other request that carries a value is
\* the creation of a missing variable, which carries the defaults), and the
\* host variable changes only to the value of such a request; onStop,
\* onHeartbeat, onCommand, onConnect, onMessage, onDisconnect and
\* onNotification send no request, leave the host variable and leave
\* Internals as they are.
C9_ReadAtStartWriteOnDemand ==
    [][/\ lastOp' = "onStart" =>
            /\ replies' # <<>>
            /\ requests' # <<>> => requests'[1].call = ListCall
       /\ \A i \in 1..Len(requests') :
            /\ requests'[i].call.param = "updateuservariable" =>
                 /\ lastOp' \in {"SaveUserVar", "SaveUserVar (running)"}
                 /\ requests'[i].call.vvalue \in PyStr(Internals)
            /\ requests'[i].call.param \in {"saveuservariable", "adduservariable"} =>
                 /\ lastOp' \notin {"SaveUserVar", "SaveUserVar (running)"}
                 /\ requests'[i].call.vvalue \in PyStr(InternalsDefaults)
       /\ hostVar' # hostVar =>
            /\ requests' # <<>>
            /\ requests'[Len(requests')].call.param \in
                   {"updateuservariable", "saveuservariable", "adduservariable"}
            /\ hostVar' = HostVar(requests'[Len(requests')].call.vvalue)
       /\ lastOp' \in {"onStop", "onHeartbeat", "onCommand", "onConnect",
                       "onMessage", "onDisconnect", "onNotification"} =>
            /\ requests' = <<>>
            /\ hostVar' = hostVar
            /\ Internals' = Internals]_vars

\* A restarted plugin's onStart has read back what SaveUserVar stored.
C9_Witness ==
    /\ lastOp = "onStart" /\ raised = NoExc /\ debugLevel = 1
    /\ Len(requests) = 1 /\ requests[1].call = ListCall
    /\ hostVar.exists /\ hostVar.value \in PyStr(Internals)
    /\ Internals # InternalsDefaults

\* C10: a request carries an HTTP Basic Authorization header, the base64 of
\* username:password, if and only if Username is not the empty string.
C10_BasicAuthIffUsername ==
    \A i \in 1..Len(requests) :
        LET auth == requests[i].auth
        IN  /\ auth.present <=> Username # <<>>
            /\ auth.present =>
                 /\ auth.scheme = "Basic"
                 /\ B64Decode(auth.cred) = Bytes(Username \o <<":">> \o Password)

C10_Witness ==
    /\ lastOp = "DomoticzAPI" /\ requests # <<>>
    /\ Username = <<"a", "b">> /\ Password = <<"p", "w">>
    /\ requests[1].auth.present

\* C11: DomoticzDevice.Refresh does not remove the device: a host device that
\* exists before Refresh exists after it, and Refresh calls no Delete on the
\* host device.
C11_RefreshKeepsDevice ==
    [][lastOp' = "Device.Refresh" =>
         /\ Devices \subseteq Devices'
         /\ \A i \in 1..Len(hostCalls') : hostCalls'[i].name # "Delete"]_vars

\* The mask flags of DomoticzDebugLevel: DebugFuncCalls .. DebugMessageQueue.
MaskFlags == DebugLevels \ {"ShowNone", "ShowAll"}

RECURSIVE MaskOf(_)
MaskOf(flags) ==
    IF flags = {} THEN 0
    ELSE LET f == CHOOSE x \in flags : TRUE
         IN  DebugLevelValue(f) + MaskOf(flags \ {f})

\* C12: for every list of mask flags, Debugging calls the host's Debugging
\* exactly once, with the logical OR of the flags' mask values (62 for the
\* documented example), and does not raise.
C12_DebuggingBitmask ==
    (lastOp = "Debugging" /\ (\A i \in 1..Len(debugValues) : debugValues[i] \in MaskFlags)) =>
        /\ raised = NoExc
        /\ hostCalls = <<HostCall("Debugging",
                                  MaskOf({debugValues[i] : i \in 1..Len(debugValues)}))>>

\* The unit a Unit argument denotes.
UnitNumber(arg) == IF arg.t = "int" THEN arg.n ELSE NumericValue(arg.chars)

\* C13: InitDevice(Unit) makes a host Create followed by one Update with the
\* default values if and only if int(Unit) is not a key of the host's
\* Devices; when the device exists it makes no Create and no Update and the
\* device's values are unchanged.
C13_CreateOnlyIfNeeded ==
    [][lastOp' = "InitDevice" =>
         LET u == UnitNumber(unitArg')
         IN  /\ u \notin Devices =>
                  /\ hostCalls' = <<HostCall("Create", u), HostCall("Update", u)>>
                  /\ u \in Devices' /\ devValue'[u] = 0
             /\ u \in Devices =>
                  /\ hostCalls' = <<>>
                  /\ Devices' = Devices /\ devValue' = devValue]_vars

\* C18: InitializedDeviceUnits is exactly the set of the int(Unit) of the
\* InitDevice calls made so far on the helper, whether the device existed or
\* its creation failed; no operation removes a unit from it.
C18_InitializedUnits ==
    InitializedDeviceUnits = {UnitNumber(arg) : arg \in initCalls}

C18_Witness ==
    /\ lastOp = "InitDevice" /\ raised = "KeyError"
    /\ hostCalls = <<HostCall("Create", 2)>>
    /\ unitArg.t = "str" /\ UnitNumber(unitArg) = 2
    /\ InitializedDeviceUnits = {1, 2}
    /\ Devices = {1}

\* C19: onHeartbeat logs the missing-device error if and only if a unit of
\* InitializedDeviceUnits is not a key of the host's Devices at that moment,
\* and it changes neither InitializedDeviceUnits nor the host's devices.
C19_HeartbeatMissingDevice ==
    [][lastOp' = "onHeartbeat" =>
         /\ errors' = 1 <=> InitializedDeviceUnits \ Devices # {}
         /\ errors' \in {0, 1}
         /\ InitializedDeviceUnits' = InitializedDeviceUnits
         /\ Devices' = Devices /\ devValue' = devValue
         /\ hostCalls' = <<>>]_vars

C19_Witness ==
    /\ lastOp = "onHeartbeat" /\ errors = 1
    /\ InitializedDeviceUnits = {1, 2} /\ Devices = {2}

\* C14: the properties Name, Base and Description of DomoticzImage return the
\* fields Name, Base and Description of the host image record, and ID
\* returns its ID.
C14_ImageFields ==
    /\ lastOp = "Image.ID" => ret = PyIntVal(image.ID)
    /\ lastOp = "Image.Name" => ret = PyStrVal(image.Name)
    /\ lastOp = "Image.Base" => ret = PyStrVal(image.Base)
    /\ lastOp = "Image.Description" => ret = PyStrVal(image.Description)

\* The numbers between the dots of a version string, in order.
VersionNumbers(v) ==
    LET cuts == {0, Len(v) + 1} \cup {i \in 1..Len(v) : v[i] = "."}
        parts == {p \in cuts \X cuts :
                    p[1] < p[2] /\ \A c \in cuts : ~(p[1] < c /\ c < p[2])}
        rank(p) == Cardinality({q \in parts : q[1] < p[1]}) + 1
    IN  [i \in 1..Cardinality(parts) |->
            NumericValue(PieceText(v, CHOOSE p \in parts : rank(p) = i))]

\* A three-number version that is 2.4.9 or later.
AtLeast249(v) ==
    LET n == VersionNumbers(v)
    IN  \/ n[1] > 2
        \/ n[1] = 2 /\ n[2] > 4
        \/ n[1] = 2 /\ n[2] = 4 /\ n[3] >= 9

\* The listing of the last GetUserVar gave a result without the variable.
FoundMissing ==
    /\ lastOp = "GetUserVar" /\ replies # <<>> /\ Truthy(replies[1])
    /\ \/ ~replies[1].body.hasResult
       \/ \A i \in 1..Len(replies[1].body.result) :
              replies[1].body.result[i].Name # VarName

\* C15: when GetUserVar finds the variable missing it sends exactly one
\* creation request: 'adduservariable' if and only if the version request
\* succeeded and reported dzvents_version >= 2.4.9, 'saveuservariable'
\* otherwise; when the version request failed an error is logged.
C15_CreationCommand ==
    FoundMissing =>
        LET creations == {i \in 1..Len(requests) :
                            requests[i].call.param
                                \in {"saveuservariable", "adduservariable"}}
            newer == /\ Len(replies) >= 2 /\ Truthy(replies[2])
                     /\ replies[2].body.hasDz /\ AtLeast249(replies[2].body.dz)
        IN  /\ Cardinality(creations) = 1
            /\ \A i \in creations :
                 requests[i].call.param = "adduservariable" <=> newer
            /\ (Len(replies) >= 2 /\ ~Truthy(replies[2])) => errors >= 1

\* C16: when the listing of the user variables yields no result (None, or
\* the empty object), GetUserVar logs an error besides the one DomoticzAPI
\* logged, makes no further request, sets Internals to InternalsDefaults and
\* raises nothing.
C16_ListingFailed ==
    (/\ lastOp = "GetUserVar" /\ replies # <<>>
     /\ replies[1].none \/ replies[1].body = EmptyBody) =>
        /\ Len(replies) = 1 /\ Len(requests) <= 1
        /\ errors = 2
        /\ Internals = InternalsDefaults
        /\ raised = NoExc

C16_Witness ==
    /\ lastOp = "GetUserVar" /\ replies = <<ApiNone>> /\ Len(requests) = 1
    /\ hostVar.exists /\ hostVar.value \notin PyStr(InternalsDefaults)
    /\ Internals = InternalsDefaults

\* C17: onStart sets the host debug level to 1 (ShowAll) before it reads the
\* persisted variable and completes without raising; onStop sets it to 0
\* (ShowNone). After onStart the level is 1 and after onStop it is 0.
C17_DebugLevels ==
    /\ lastOp = "onStart" =>
         /\ raised = NoExc
         /\ debugLevel = 1
         /\ hostCalls = <<HostCall("Debugging", 1)>>
         /\ replies # <<>>
    /\ lastOp = "onStop" =>
         /\ raised = NoExc
         /\ debugLevel = 0
         /\ hostCalls = <<HostCall("Debugging", 0)>>

\* The mappings whose text eval() reads back: no nan among the values.
\* Mappings of up to two keys whose values are ints, strs and sets of strs:
\* the text str() prints for each of them is one that eval() reads back.
C20_Mappings ==
    LET values == {IntObj(n) : n \in 0..MaxInt}
                  \cup {StrObj(<<"x">>),
                        Obj("set", 0, <<>>, <<>>, {StrObj(<<"a">>), StrObj(<<"b">>)})}
        items == {Item(k, v) : k \in {KeyA, KeyB}, v \in values}
    IN  {EmptyDict} \cup {DictObj(<<i1>>) : i1 \in items}
        \cup {DictObj(<<p[1], p[2]>>) :
                 p \in {q \in items \X items : q[1].items[1] # q[2].items[1]}}

\* C20: when the host variable exists and its value is the text of a mapping
\* S, GetUserVar merges: Internals afterwards is Internals before overridden
\* key by key with S (a key absent from S keeps its value, a key of S that
\* Internals did not have is added), and only the listing is requested.
C20_MergeNotReplace ==
    [][(/\ lastOp' = "GetUserVar" /\ replies' # <<>> /\ Truthy(replies'[1])
        /\ replies'[1].body.hasResult
        /\ ~FindVar(replies'[1].body.result).noVar) =>
         LET text == FindVar(replies'[1].body.result).valuestring
             parsed == PyEval(text)
             Merged(S) ==
                 /\ DictKeys(Internals') = DictKeys(Internals) \cup DictKeys(S)
                 /\ \A k \in DictKeys(S) : DictGet(Internals', k) = DictGet(S, k)
                 /\ \A k \in DictKeys(Internals) \ DictKeys(S) :
                      DictGet(Internals', k) = DictGet(Internals, k)
                 /\ Len(replies') = 1 /\ Len(requests') = 1
                 /\ requests'[1].call = ListCall
                 /\ raised' = NoExc
         IN  /\ (parsed.err = NoExc /\ parsed.val.t = "dict") => Merged(parsed.val)
             /\ \A S \in C20_Mappings : text \in PyStr(S) => Merged(S)]_vars

C20_Witness ==
    /\ lastOp = "GetUserVar" /\ Len(replies) = 1 /\ Truthy(replies[1])
    /\ hostVar.exists
    /\ hostVar.value \in PyStr(DictOf(<<Item(KeyB, IntObj(1))>>, EmptyDict))
    /\ InternalsDefaults = DictOf(<<Item(KeyA, IntObj(0))>>, EmptyDict)
    /\ Internals = DictOf(<<Item(KeyA, IntObj(1)), Item(KeyB, IntObj(1))>>, EmptyDict)

====
